---- MODULE Spec2Model ----
(***************************************************************************)
(* The construction primitives of src/agent/library/rail.js and cane.js    *)
(* (equipItem, placeOnBlock, pourWaterInHole, setOrigin, walkTo,           *)
(* acquireItems, jumpForDuration, walkNorth, toggleBlock, dig) and the two *)
(* machines built from them (makeRailMachine, makeCaneMachine).            *)
(*                                                                         *)
(* Lengths are in tenths of a block, so that a position such as 0.5 and    *)
(* the eye height 1.8 are integers and Vec3.floored() is a real operation. *)
(* A primitive is an operator from the bot's state to the SET of results   *)
(* it can end with: one result per combination of outcomes of the          *)
(* environment calls it actually makes.  A result is a record              *)
(*   [s |-> state after, status |-> "returned" | "raised", value, message]. *)
(***************************************************************************)
EXTENDS Integers, Sequences, FiniteSets, TLC

VARIABLES
    origin,     \* bot.origin: NoOrigin or [position, yaw]
    entity,     \* bot.entity: [position, yaw, height]
    blocks,     \* the loaded world: cell -> block name
    inv,        \* inventory counts: item name -> count
    held,       \* what each hand holds: hand -> item name or "none"
    ctrl,       \* movement controls: name -> BOOLEAN
    interrupt,  \* bot.interrupt_code
    last,       \* the invocation that ended last
    env,        \* the environment the bot is in: "world", "faultless" or "any"
    machine,    \* the machine that runs or ran last: "none", "rail" or "cane"
    pc,         \* the machine's next step; past the script's end once it returned,
                \* -1 once a step raised and the run was aborted
    ncalls,     \* invocations (of a primitive, of a machine) made so far
    busy,       \* the statements of the running machine that were begun and have
                \* not settled (used where a statement's begin and end are apart)
    leverUses   \* bot.activateBlock calls on a lever since the last run began

vars ==
    <<origin, entity, blocks, inv, held, ctrl, interrupt, last, env, machine, pc, ncalls,
      busy, leverUses>>

----------------------------------------------------------------------------
(* Bounds of the exploration.                                              *)

\* invocations a harness behaviour makes
MaxCalls == 1
\* machines run one after the other
MaxRuns == 2
\* iterations of the timed jump loop
MaxJumps == 2

----------------------------------------------------------------------------
(* Vectors: <<x, y, z>> in tenths of a block.                              *)

\* a length of n blocks
Blk(n) == 10 * n

\* new Vec3(x, y, z) with whole-block components
Vec3(x, y, z) == <<Blk(x), Blk(y), Blk(z)>>

\* Vec3.plus / Vec3.add
plus(a, b) == <<a[1] + b[1], a[2] + b[2], a[3] + b[3]>>

\* Vec3.scaled by a whole number
scaled(a, k) == <<a[1] * k, a[2] * k, a[3] * k>>

\* Vec3.floored(): each component rounded down to a whole block
floored(a) == <<(a[1] \div 10) * 10, (a[2] \div 10) * 10, (a[3] \div 10) * 10>>

\* the cell (whole-block coordinates) holding a point
CellOf(a) == <<a[1] \div 10, a[2] \div 10, a[3] \div 10>>

NoOrigin == [position |-> <<>>, yaw |-> -1]
NoBlock == [name |-> "null", position |-> <<>>]

----------------------------------------------------------------------------
(* Results and their sequencing.                                           *)

Ret(s, v) == [s |-> s, status |-> "returned", value |-> v, message |-> <<>>]
\* a raised error carries its message, a sequence of words (<<>>: no message)
Raise(s, msg) == [s |-> s, status |-> "raised", value |-> "error", message |-> msg]

\* await f(); g(...): g runs on every result f returned with; a raise propagates
Then(results, K(_)) ==
    UNION {IF r.status = "raised" THEN {r} ELSE K(r) : r \in results}

\* try { ... } catch: a raise inside becomes the handler's result
Catch(results, H(_)) ==
    UNION {IF r.status = "raised" THEN H(r.s) ELSE {r} : r \in results}

\* log(bot, message): the log keeps the kind of each message
log(s, msg) == [s EXCEPT !.log = Append(@, msg)]

\* an environment call and its outcome, recorded in call order
Called(s, c) == [s EXCEPT !.calls = Append(@, c)]

\* an environment call may fail, unless the environment is the faultless one
CanFail(s) == s.env # "faultless"

\* await wait(bot, ms)
wait(s, ms) == Called(s, <<"wait", ms>>)

----------------------------------------------------------------------------
(* The environment (the bot object: mineflayer and ./skills.js), as the   *)
(* primitives call it.                                                     *)

Hands == {"hand", "off-hand"}

\* messages of the errors bot.placeBlock raises
MsgNoUpdate == <<"Event", "blockUpdate", "did", "not", "fire", "within", "timeout">>
MsgNotPlaced == <<"No", "block", "has", "been", "placed">>
MsgNone == <<>>
MsgTransient == {MsgNotPlaced, MsgNone}
MsgError == <<"Error">>

\* String.includes, on a message's words
includes(msg, word) == \E i \in 1..Len(msg) : msg[i] = word

\* The environment is one of three.  "world": the blocks, the stock, the hands
\* and the bot's position and heading are tracked, and any call may fail.
\* "faultless": the same, and no call fails that the world allows.  "any":
\* nothing of the environment is tracked (its variables stay as they were); a
\* lookup may return any block and any answer, and any call may fail.
Tracked(s, t) == IF s.env = "any" THEN s ELSE t

BlockNames == {"air", "stone", "bedrock", "lever", "repeater"}

\* bot.blockAt(point): the block of the cell holding the point, null when the
\* cell is not loaded (the blocks it may return)
blockAt(s, p) ==
    IF s.env = "any"
    THEN {NoBlock} \cup {[name |-> n, position |-> floored(p)] : n \in BlockNames}
    ELSE IF CellOf(p) \in DOMAIN s.blocks
    THEN {[name |-> s.blocks[CellOf(p)], position |-> floored(p)]}
    ELSE {NoBlock}

\* bot.inventory.findInventoryItem(itemName, null): is there such an item
\* (the answers it may give)
findInventoryItem(s, itemName) ==
    IF s.env = "any" THEN BOOLEAN ELSE {s.inv[itemName] > 0}

\* await bot.equip(item, hand)
botEquip(s, itemName, hand) ==
    {Ret(Called(Tracked(s, [s EXCEPT !.held[hand] = itemName]),
                <<"equip", itemName, hand, "ok">>), "ok")}
    \cup (IF CanFail(s)
          THEN {Raise((Called(s, <<"equip", itemName, hand, "raise">>)), MsgError)}
          ELSE {})

\* the heading the bot has after looking from one point at another
LookYaw(yaw, from, to) ==
    LET dx == to[1] - from[1]
        dz == to[3] - from[3]
        ax == IF dx < 0 THEN -dx ELSE dx
        az == IF dz < 0 THEN -dz ELSE dz
    IN  IF dx = 0 /\ dz = 0 THEN yaw
        ELSE IF az >= ax THEN (IF dz < 0 THEN 0 ELSE 2)
        ELSE (IF dx > 0 THEN 3 ELSE 1)

\* await bot.lookAt(point)
botLookAt(s, p) ==
    {Ret(Called(Tracked(s, [s EXCEPT !.entity.yaw =
                                LookYaw(@, plus(s.entity.position, <<0, s.entity.height, 0>>), p),
                                      !.entity.look = p]),
                <<"lookAt", p, "ok">>), "ok")}
    \cup (IF CanFail(s)
          THEN {Raise((Called(s, <<"lookAt", p, "raise">>)), MsgError)}
          ELSE {})

\* the world after the held item went into the cell next to the reference block
Placed(s, block, directionVec) ==
    LET dest == CellOf(plus(block.position, directionVec))
        item == s.held["hand"]
    IN  Tracked(s, [s EXCEPT !.blocks[dest] = item, !.inv[item] = @ - 1])

\* the server accepts a placement against a block that is not air, into a
\* loaded cell that is air, of an item the bot holds
CanPlace(s, block, directionVec) ==
    LET dest == CellOf(plus(block.position, directionVec))
    IN  IF s.env = "any" THEN BOOLEAN
        ELSE {/\ block.name # "air"
              /\ dest \in DOMAIN s.blocks
              /\ s.blocks[dest] = "air"
              /\ s.held["hand"] # "none"
              /\ s.inv[s.held["hand"]] > 0}

\* bot.placeBlock when the server accepts the placement (can) or does not: it
\* returns once the block update arrived; it raises MsgNoUpdate when no update
\* arrived in time (the block may be there or not), and other errors with the
\* world as it was
botPlaceBlockWhen(s, block, directionVec, can) ==
    LET at == CellOf(block.position)
        fails == ~can \/ CanFail(s)
    IN  (IF can
         THEN {Ret(Called(Placed(s, block, directionVec),
                          <<"placeBlock", at, directionVec, "ok">>), "ok")}
         ELSE {})
        \cup (IF fails
              THEN {Raise(Called((IF can THEN Placed(s, block, directionVec) ELSE s),
                                 <<"placeBlock", at, directionVec, "noUpdate">>), MsgNoUpdate)}
                   \cup {Raise(Called(s, <<"placeBlock", at, directionVec, "raise">>), m)
                           : m \in MsgTransient}
              ELSE {})

\* await bot.placeBlock(block, directionVec)
botPlaceBlock(s, block, directionVec) ==
    UNION {botPlaceBlockWhen(s, block, directionVec, can)
             : can \in CanPlace(s, block, directionVec)}

\* await bot.activateItem(): the held bucket is emptied into the air cell the
\* bot looks at
botActivateItem(s) ==
    LET at == CellOf(s.entity.look)
        item == s.held["hand"]
        poured == IF /\ s.env # "any"
                     /\ item = "water_bucket"
                     /\ at \in DOMAIN s.blocks
                     /\ s.blocks[at] = "air"
                  THEN [s EXCEPT !.blocks[at] = "water", !.inv[item] = @ - 1]
                  ELSE s
    IN  {Ret(Called(poured, <<"activateItem", "ok">>), "ok")}
        \cup (IF CanFail(s)
              THEN {Raise((Called(s, <<"activateItem", "raise">>)), MsgError)}
              ELSE {})

\* await bot.activateBlock(block)
botActivateBlock(s, block) ==
    {Ret(Called(s, <<"activateBlock", CellOf(block.position), block.name, "ok">>), "ok")}
    \cup (IF CanFail(s)
          THEN {Raise((Called(s, <<"activateBlock", CellOf(block.position), block.name, "raise">>)),
                      MsgError)}
          ELSE {})

\* bot.canDigBlock(block)
canDigBlock(block) == block.name # "bedrock"

\* await bot.dig(block)
botDig(s, block) ==
    {Ret(Called(Tracked(s, [s EXCEPT !.blocks[CellOf(block.position)] = "air"]),
                <<"dig", CellOf(block.position), "ok">>), "ok")}
    \cup (IF CanFail(s)
          THEN {Raise((Called(s, <<"dig", CellOf(block.position), "raise">>)), MsgError)}
          ELSE {})

\* bot.chat("/give @s item amount"): the server gives when commands are allowed
botChatGive(s, itemName, amount) ==
    Called((IF s.cheats THEN Tracked(s, [s EXCEPT !.inv[itemName] = @ + amount]) ELSE s),
           <<"chat", itemName, amount>>)

\* bot.setControlState(name, value)
setControlState(s, name, value) ==
    Called([s EXCEPT !.ctrl[name] = value], <<"setControlState", name, value>>)

\* world.getInventoryCounts(bot)[itemName] || 0
getInventoryCount(s, itemName) ==
    IF itemName \in DOMAIN s.inv THEN s.inv[itemName] ELSE 0

\* await goToPosition(bot, x, y, z, min_distance) of ./skills.js: true with the
\* bot at the target, false with the bot where it was
goToPosition(s, target, min_distance) ==
    {Ret(Called(Tracked(s, [s EXCEPT !.entity.position = target]),
                <<"goToPosition", target, min_distance, "ok">>), "true")}
    \cup (IF CanFail(s)
          THEN {Ret((Called(s, <<"goToPosition", target, min_distance, "fail">>)), "false")}
          ELSE {})

----------------------------------------------------------------------------
(* rail.js: the primitives.                                                *)

\* an equipItem without its try/catch
equipItem_noCatch(s, itemName, hand) ==
    LET s1 == Called(s, <<"findInventoryItem", itemName>>)
    IN  UNION {
          IF item
          THEN Then(botEquip(s1, itemName, hand),
                    LAMBDA r : {Ret(log(r.s, "equipped"), "true")})
          ELSE {Ret(log(s1, "no_item"), "false")}
          : item \in findInventoryItem(s, itemName)}

\* rail.js 6-21 (cane.js 6-21 is the same text)
equipItem(s, itemName, hand) ==
    LET s1 == Called(s, <<"findInventoryItem", itemName>>)
    IN  UNION {
          IF item
          THEN Catch(Then(botEquip(s1, itemName, hand),
                          LAMBDA r : {Ret(log(r.s, "equipped"), "true")}),
                     LAMBDA t : {Ret(log(t, "equip_error"), "false")})
          ELSE {Ret(log(s1, "no_item"), "false")}
          : item \in findInventoryItem(s, itemName)}

\* rail.js 136-147: the position is cloned, the heading copied
setOrigin(s) ==
    LET s1 == [s EXCEPT !.origin = [position |-> s.entity.position,
                                    yaw |-> s.entity.yaw],
                        !.writes = Append(@, s.origin)]
    IN  {Ret(log(s1, "origin_set"), "true")}

\* a lazy initialisation that takes the world's zero point for the frame
ensureOrigin_worldZero(s) ==
    IF s.origin = NoOrigin
    THEN {Ret([log(s, "origin_not_set") EXCEPT !.origin = [position |-> <<0, 0, 0>>, yaw |-> 0],
                                               !.writes = Append(@, s.origin)],
              "true")}
    ELSE {Ret(s, "true")}

\* if (!bot.origin) { log(...); await setOrigin(bot); }
ensureOrigin(s) ==
    IF s.origin = NoOrigin
    THEN setOrigin(log(s, "origin_not_set"))
    ELSE {Ret(s, "true")}

\* a resolution with forward along increasing world z
resolve_forwardPlus(o, coords) ==
    <<o.position[1] + Blk(coords[1]),
      o.position[2] + Blk(coords[2]),
      o.position[3] + Blk(coords[3])>>

\* rail.js 29-31: origin plus (x, y, -z)
resolve(o, coords) ==
    <<o.position[1] + Blk(coords[1]),
      o.position[2] + Blk(coords[2]),
      o.position[3] - Blk(coords[3])>>

\* the primitive resolved a coordinate: kept for the record of the invocation
Resolved(s, p) == [s EXCEPT !.resolved = Append(@, p)]

maxRetries == 3
skipAirCheck == TRUE

Facings == {"north", "south", "east", "west", "up", "down"}

\* rail.js 48-56: the look target one block from the head, none on another word
lookAtTarget(headPos, facingDirection) ==
    CASE facingDirection = "north" -> plus(headPos, Vec3(0, 0, -1))
      [] facingDirection = "south" -> plus(headPos, Vec3(0, 0, 1))
      [] facingDirection = "east"  -> plus(headPos, Vec3(1, 0, 0))
      [] facingDirection = "west"  -> plus(headPos, Vec3(-1, 0, 0))
      [] facingDirection = "up"    -> plus(headPos, Vec3(0, 1, 0))
      [] facingDirection = "down"  -> plus(headPos, Vec3(0, -1, 0))
      [] OTHER -> <<>>

\* a test for the benign error that wants the whole message to be the word
isBenign_wholeMessage(message) == message = <<"blockUpdate">>

\* rail.js 82: e.message && e.message.includes("blockUpdate")
isBenign(message) == message # <<>> /\ includes(message, "blockUpdate")

\* a loop condition that lets one attempt more through
mayRetry_oneMore(retry) == retry <= maxRetries

\* rail.js 76: the loop condition
mayRetry(retry) == retry < maxRetries

\* rail.js 76-90: the placement attempts
RECURSIVE placeLoop(_, _, _, _, _)
placeLoop(s, itemName, block, directionVec, retry) ==
    IF mayRetry(retry)
    THEN UNION {
           IF r.status = "returned"
           THEN {Ret(log(r.s, "placed"), "true")}
           ELSE IF isBenign(r.message)
           THEN {Ret(log(r.s, "placed_no_update"), "true")}
           ELSE placeLoop(log(r.s, "attempt_failed"), itemName, block, directionVec, retry + 1)
           : r \in botPlaceBlock(s, block, directionVec)}
    ELSE {Ret(s, "false")}

\* an orientation that does not wait for the server to register the heading
face_noWait(s, facingDirection) ==
    IF facingDirection # "null"
    THEN LET headPos == plus(s.entity.position, <<0, s.entity.height, 0>>)
             target == lookAtTarget(headPos, facingDirection)
         IN  IF target # <<>>
             THEN Then(botLookAt(log(s, "looking"), target),
                       LAMBDA r : {Ret(r.s, "true")})
             ELSE {Ret(log(s, "invalid_facing"), "true")}
    ELSE {Ret(s, "true")}

\* rail.js 44-62: orient the bot when a facing is given
face(s, facingDirection) ==
    IF facingDirection # "null"
    THEN LET headPos == plus(s.entity.position, <<0, s.entity.height, 0>>)
             target == lookAtTarget(headPos, facingDirection)
         IN  IF target # <<>>
             THEN Then(botLookAt(log(s, "looking"), target),
                       LAMBDA r : {Ret(wait(r.s, 200), "true")})
             ELSE {Ret(log(s, "invalid_facing"), "true")}
    ELSE {Ret(s, "true")}

\* rail.js 67-74: the occupancy check, switched off by skipAirCheck
airCheck(s, abs, directionVec, K(_)) ==
    IF ~skipAirCheck
    THEN UNION {IF targetBlock # NoBlock /\ targetBlock.name # "air"
                THEN {Ret(log(s, "target_occupied"), "false")}
                ELSE K(s)
                : targetBlock \in blockAt(s, plus(abs, directionVec))}
    ELSE K(s)

\* a test of equipItem's result that never sees a failure
equipFailed_never(value) == FALSE

\* rail.js 39: !await equipItem(bot, itemName, 'hand')
equipFailed(value) == value # "true"

\* a resolution that adds the offset into bot.origin.position itself
afterResolve_inPlace(s, coords) == [s EXCEPT !.origin.position = resolve(s.origin, coords)]

\* rail.js 28-31: absX, absY and absZ are new numbers; bot.origin is read only
afterResolve(s, coords) == s

\* rail.js 23-91
placeOnBlock(s, itemName, coords, directionVec, facingDirection) ==
    Then(ensureOrigin(s), LAMBDA r0 :
      LET abs == resolve(r0.s.origin, coords)
          s1 == Called(Resolved(afterResolve(r0.s, coords), abs), <<"blockAt", abs>>)
      IN  UNION {
            IF block = NoBlock
            THEN {Ret(log(s1, "no_support"), "false")}
            ELSE Then(equipItem(s1, itemName, "hand"), LAMBDA r1 :
                   IF equipFailed(r1.value)
                   THEN {Ret(log(r1.s, "cannot_equip"), "false")}
                   ELSE Then(face(r1.s, facingDirection), LAMBDA r2 :
                          airCheck(r2.s, abs, directionVec, LAMBDA s3 :
                            placeLoop(s3, itemName, block, directionVec, 0))))
            : block \in blockAt(s1, abs)})

\* a pourWaterInHole without its try/catch
pourWaterInHole_noCatch(s, dx, dy, dz) ==
    Then(ensureOrigin(log(s, "pouring")), LAMBDA r0 :
      LET forwardVec == Vec3(0, 0, -1)
          rightVec == Vec3(1, 0, 0)
          lookAtPoint == plus(plus(plus(r0.s.origin.position, scaled(rightVec, dx)),
                                   Vec3(0, dy, 0)),
                              scaled(forwardVec, dz))
          s1 == Resolved(r0.s, lookAtPoint)
      IN  Then(equipItem(s1, "water_bucket", "hand"), LAMBDA r1 :
            IF r1.value # "true"
            THEN {Ret(log(r1.s, "cannot_equip"), "false")}
            ELSE Then(botLookAt(log(log(r1.s, "equipped_bucket"), "looking"), lookAtPoint),
                   LAMBDA r2 :
                     Then(botActivateItem(wait(r2.s, 200)), LAMBDA r3 :
                       {Ret(wait(log(r3.s, "poured"), 1000), "true")}))))

\* rail.js 93-134 (cane.js 73-114 is the same text)
pourWaterInHole(s, dx, dy, dz) ==
    Then(ensureOrigin(log(s, "pouring")), LAMBDA r0 :
      LET yaw == r0.s.origin.yaw
          forwardVec == Vec3(0, 0, -1)
          rightVec == Vec3(1, 0, 0)
          lookAtPoint == plus(plus(plus(r0.s.origin.position, scaled(rightVec, dx)),
                                   Vec3(0, dy, 0)),
                              scaled(forwardVec, dz))
          s1 == Resolved(r0.s, lookAtPoint)
      IN  Catch(
            Then(equipItem(s1, "water_bucket", "hand"), LAMBDA r1 :
              IF r1.value # "true"
              THEN {Ret(log(r1.s, "cannot_equip"), "false")}
              ELSE Then(botLookAt(log(log(r1.s, "equipped_bucket"), "looking"), lookAtPoint),
                     LAMBDA r2 :
                       Then(botActivateItem(wait(r2.s, 200)), LAMBDA r3 :
                         {Ret(wait(log(r3.s, "poured"), 1000), "true")}))),
            LAMBDA t : {Ret(log(t, "pour_error"), "false")}))

\* rail.js 149-170
walkTo(s, dx, dy, dz) ==
    Then(ensureOrigin(s), LAMBDA r0 :
      LET targetPos == <<r0.s.origin.position[1] + Blk(dx),
                         r0.s.origin.position[2] + Blk(dy),
                         r0.s.origin.position[3] - Blk(dz)>>
      IN  goToPosition(log(Resolved(r0.s, targetPos), "going"), targetPos, 2))

\* rail.js 180-190 and cane.js 160-175, in insertion order
requiredItems ==
    <<<<"rail", 1>>, <<"smooth_stone", 8>>, <<"piston", 2>>, <<"observer", 1>>,
      <<"redstone", 5>>, <<"hopper_minecart", 1>>, <<"redstone_torch", 2>>,
      <<"repeater", 1>>, <<"lever", 1>>>>
cane_requiredItems ==
    <<<<"chest", 2>>, <<"hopper", 6>>, <<"rail", 3>>, <<"powered_rail", 2>>,
      <<"oak_planks", 45>>, <<"redstone_block", 2>>, <<"grass_block", 17>>,
      <<"water_bucket", 5>>, <<"piston", 5>>, <<"observer", 5>>, <<"redstone", 5>>,
      <<"sugar_cane", 5>>, <<"glass", 21>>, <<"hopper_minecart", 1>>>>

\* a shortfall test that also fires when the stock equals the requirement
isShort_orEqual(currentAmount, requiredAmount) == currentAmount <= requiredAmount

\* rail.js 198: is the item short
isShort(currentAmount, requiredAmount) == currentAmount < requiredAmount

\* rail.js 194-206: the loop over the required items, from the i-th on
RECURSIVE acquireLoop(_, _, _)
acquireLoop(s, required, i) ==
    IF i > Len(required) THEN {s}
    ELSE LET itemName == required[i][1]
             requiredAmount == required[i][2]
             currentAmount == getInventoryCount(s, itemName)
             s1 == Called(s, <<"getInventoryCounts", itemName, currentAmount>>)
         IN  IF isShort(currentAmount, requiredAmount)
             THEN LET amountToGive == requiredAmount - currentAmount
                  IN  acquireLoop(wait(botChatGive(log(s1, "giving"), itemName, amountToGive),
                                       200),
                                  required, i + 1)
             ELSE acquireLoop(log(s1, "enough"), required, i + 1)

\* rail.js 172-209, cane.js 152-194
acquireItems(s, required) ==
    {Ret(log(t, "finished"), "true") : t \in acquireLoop(log(s, "checking"), required, 1)}

\* a timed loop in which every jump carries the bot one block north
RECURSIVE jumpLoop_drifting(_, _)
jumpLoop_drifting(s, n) ==
    (IF n > 0 THEN {s} ELSE {})
    \cup (IF n < MaxJumps
          THEN IF s.interrupt
               THEN {log(s, "interrupted")}
               ELSE jumpLoop_drifting(
                      [wait(setControlState(
                              wait(setControlState(s, "jump", TRUE), 100),
                              "jump", FALSE), 100)
                         EXCEPT !.entity.position = plus(@, Vec3(0, 0, -1))],
                      n + 1)
          ELSE {})

\* rail.js 222-231: the timed loop; the clock is read at each check, and the
\* interrupt may be set while the bot waits
RECURSIVE jumpLoop(_, _)
jumpLoop(s, n) ==
    (IF n > 0 THEN {s} ELSE {})
    \cup (IF n < MaxJumps
          THEN IF s.interrupt
               THEN {log(s, "interrupted")}
               ELSE UNION {jumpLoop(
                             wait(setControlState(
                                    wait(setControlState(s, "jump", TRUE), 100),
                                    "jump", FALSE), 100),
                             n + 1),
                           jumpLoop(
                             [wait(setControlState(
                                     wait(setControlState(s, "jump", TRUE), 100),
                                     "jump", FALSE), 100) EXCEPT !.interrupt = TRUE],
                             n + 1)}
          ELSE {})

\* rail.js 211-235
jumpForDuration(s, duration) ==
    {Ret(log(setControlState(t, "jump", FALSE), "stopped"), "true")
       : t \in jumpLoop(log(s, "will_jump"), 0)}

\* rail.js 237-251
walkNorth(s, steps) ==
    LET currentPos == s.entity.position
        targetZ == currentPos[3] - Blk(steps)
    IN  goToPosition(log(s, "walking_north"), <<currentPos[1], currentPos[2], targetZ>>, 1)

\* a toggle that takes any block for the expected one
matches_anyBlock(block, blockType) == block # NoBlock

\* rail.js 268: block && block.name === blockType
matches(block, blockType) == block # NoBlock /\ block.name = blockType

\* a toggleBlock without its try/catch
toggleBlock_noCatch(s, blockType, x, y, z) ==
    Then(ensureOrigin(log(s, "toggling")), LAMBDA r0 :
      LET o == r0.s.origin.position
          pos == floored(<<o[1] + Blk(x), o[2] + Blk(y), o[3] - Blk(z)>>)
          s1 == Called(Resolved(r0.s, <<o[1] + Blk(x), o[2] + Blk(y), o[3] - Blk(z)>>),
                       <<"blockAt", pos>>)
      IN  UNION {
            IF matches(block, blockType)
            THEN Then(botActivateBlock(s1, block),
                      LAMBDA r1 : {Ret(log(r1.s, "activated"), "undefined")})
            ELSE {Ret(log(s1, "not_found"), "undefined")}
            : block \in blockAt(s1, pos)})

\* rail.js 253-278
toggleBlock(s, blockType, x, y, z) ==
    Then(ensureOrigin(log(s, "toggling")), LAMBDA r0 :
      LET o == r0.s.origin.position
          abs_x == o[1] + Blk(x)
          abs_y == o[2] + Blk(y)
          abs_z == o[3] - Blk(z)
          pos == floored(<<abs_x, abs_y, abs_z>>)
          s1 == Called(Resolved(r0.s, <<abs_x, abs_y, abs_z>>), <<"blockAt", pos>>)
      IN  UNION {
            IF matches(block, blockType)
            THEN Catch(Then(botActivateBlock(s1, block),
                            LAMBDA r1 : {Ret(log(r1.s, "activated"), "undefined")}),
                       LAMBDA t : {Ret(log(t, "activate_error"), "undefined")})
            ELSE {Ret(log(s1, "not_found"), "undefined")}
            : block \in blockAt(s1, pos)})

\* a loop body whose catch clause says nothing
digOne_silent(s, o, offset) ==
    LET abs_x == o[1] + Blk(offset[1])
        abs_y == o[2] + Blk(offset[2])
        abs_z == o[3] - Blk(offset[3])
        pos_to_dig == floored(<<abs_x, abs_y, abs_z>>)
        s1 == Called(Resolved(s, <<abs_x, abs_y, abs_z>>), <<"blockAt", pos_to_dig>>)
    IN  UNION {
          IF block # NoBlock /\ canDigBlock(block) /\ block.name # "air"
          THEN Catch(botDig(log(s1, "digging"), block),
                     LAMBDA t : {Ret(t, "undefined")})
          ELSE {Ret(log(s1, "cannot_dig"), "undefined")}
          : block \in blockAt(s1, pos_to_dig)}

\* a loop body without its try/catch
digOne_noCatch(s, o, offset) ==
    LET abs_x == o[1] + Blk(offset[1])
        abs_y == o[2] + Blk(offset[2])
        abs_z == o[3] - Blk(offset[3])
        pos_to_dig == floored(<<abs_x, abs_y, abs_z>>)
        s1 == Called(Resolved(s, <<abs_x, abs_y, abs_z>>), <<"blockAt", pos_to_dig>>)
    IN  UNION {
          IF block # NoBlock /\ canDigBlock(block) /\ block.name # "air"
          THEN botDig(log(s1, "digging"), block)
          ELSE {Ret(log(s1, "cannot_dig"), "undefined")}
          : block \in blockAt(s1, pos_to_dig)}

\* rail.js 290-308: the loop body, for one offset (the states it may leave)
digOne(s, o, offset) ==
    LET abs_x == o[1] + Blk(offset[1])
        abs_y == o[2] + Blk(offset[2])
        abs_z == o[3] - Blk(offset[3])
        pos_to_dig == floored(<<abs_x, abs_y, abs_z>>)
        s1 == Called(Resolved(s, <<abs_x, abs_y, abs_z>>), <<"blockAt", pos_to_dig>>)
    IN  UNION {
          IF block # NoBlock /\ canDigBlock(block) /\ block.name # "air"
          THEN Catch(botDig(log(s1, "digging"), block),
                     LAMBDA t : {Ret(log(t, "dig_error"), "undefined")})
          ELSE {Ret(log(s1, "cannot_dig"), "undefined")}
          : block \in blockAt(s1, pos_to_dig)}

\* rail.js 289-309: the loop over the offsets, from the i-th on, started in any
\* of the states the earlier offsets may have left
RECURSIVE digLoop(_, _, _, _)
digLoop(results, o, blocks_to_dig, i) ==
    IF i > Len(blocks_to_dig) THEN results
    ELSE digLoop(Then(results, LAMBDA r : digOne(r.s, o, blocks_to_dig[i])),
                 o, blocks_to_dig, i + 1)

\* rail.js 280-310
dig(s, blocks_to_dig) ==
    Then(ensureOrigin(log(s, "digging_list")), LAMBDA r0 :
      digLoop({Ret(r0.s, "undefined")}, r0.s.origin.position, blocks_to_dig, 1))

----------------------------------------------------------------------------
(* cane.js: its own copy of placeOnBlock, without the facing argument.     *)

cane_maxRetries == 3
cane_skipAirCheck == TRUE

\* a test for the benign error that takes every error with a message for it
cane_isBenign_anyMessage(message) == message # <<>>

\* cane.js 62
cane_isBenign(message) == message # <<>> /\ includes(message, "blockUpdate")

\* cane.js 56-70
RECURSIVE cane_placeLoop(_, _, _, _, _)
cane_placeLoop(s, itemName, block, directionVec, retry) ==
    IF retry < cane_maxRetries
    THEN UNION {
           IF r.status = "returned"
           THEN {Ret(log(r.s, "placed"), "true")}
           ELSE IF cane_isBenign(r.message)
           THEN {Ret(log(r.s, "placed_no_update"), "true")}
           ELSE cane_placeLoop(log(r.s, "attempt_failed"), itemName, block, directionVec,
                               retry + 1)
           : r \in botPlaceBlock(s, block, directionVec)}
    ELSE {Ret(s, "false")}

\* cane.js 23-71
cane_placeOnBlock(s, itemName, coords, directionVec) ==
    Then(ensureOrigin(s), LAMBDA r0 :
      LET absX == r0.s.origin.position[1] + Blk(coords[1])
          absY == r0.s.origin.position[2] + Blk(coords[2])
          absZ == r0.s.origin.position[3] - Blk(coords[3])
          abs == <<absX, absY, absZ>>
          s1 == Called(Resolved(r0.s, abs), <<"blockAt", abs>>)
      IN  UNION {
            IF block = NoBlock
            THEN {Ret(log(s1, "no_support"), "false")}
            ELSE Then(equipItem(s1, itemName, "hand"), LAMBDA r1 :
                   IF r1.value # "true"
                   THEN {Ret(log(r1.s, "cannot_equip"), "false")}
                   ELSE IF ~cane_skipAirCheck
                   THEN UNION {
                          IF targetBlock # NoBlock /\ targetBlock.name # "air"
                          THEN {Ret(log(r1.s, "target_occupied"), "false")}
                          ELSE cane_placeLoop(r1.s, itemName, block, directionVec, 0)
                          : targetBlock \in blockAt(r1.s, plus(abs, directionVec))}
                   ELSE cane_placeLoop(r1.s, itemName, block, directionVec, 0))
            : block \in blockAt(s1, abs)})

----------------------------------------------------------------------------
(* The machines: the scripts of makeRailMachine and makeCaneMachine, one   *)
(* step per statement, in source order.                                    *)

StepOf(op, item, coords, dir, facing, list, n) ==
    [op |-> op, item |-> item, coords |-> coords, dir |-> dir, facing |-> facing,
     list |-> list, n |-> n]
Jump(duration) == StepOf("jumpForDuration", "", <<>>, <<>>, "", <<>>, duration)
North(steps) == StepOf("walkNorth", "", <<>>, <<>>, "", <<>>, steps)
Acquire == StepOf("acquireItems", "", <<>>, <<>>, "", <<>>, 0)
Origin == StepOf("setOrigin", "", <<>>, <<>>, "", <<>>, 0)
Dig(list) == StepOf("dig", "", <<>>, <<>>, "", list, 0)
Walk(dx, dy, dz) == StepOf("walkTo", "", <<dx, dy, dz>>, <<>>, "", <<>>, 0)
Pour(dx, dy, dz) == StepOf("pourWaterInHole", "", <<dx, dy, dz>>, <<>>, "", <<>>, 0)
Toggle(blockType, x, y, z) == StepOf("toggleBlock", blockType, <<x, y, z>>, <<>>, "", <<>>, 0)
\* a placement statement whose insertion direction is lost: the default, up
Place_upOnly(item, coords, dir, facing) ==
    StepOf("placeOnBlock", item, coords, Vec3(0, 1, 0), facing, <<>>, 0)

Place(item, coords, dir, facing) == StepOf("placeOnBlock", item, coords, dir, facing, <<>>, 0)
Control(name, value) ==
    StepOf("setControlState", name, <<>>, <<>>, "", <<>>, IF value THEN 1 ELSE 0)

\* rail.js 313-360
makeRailMachine ==
    <<Jump(5000),
      North(10),
      Acquire,
      Origin,
      Dig(<<<<0, -1, 1>>, <<0, -1, 2>>, <<0, -1, 3>>, <<1, -1, 1>>, <<1, -1, 2>>, <<1, -1, 3>>, <<-1, -1, 3>>>>),
      Walk(-2, 0, 3),
      Place("piston", <<-1, -2, 3>>, Vec3(0, 1, 0), "null"),
      Place("smooth_stone", <<0, -2, 3>>, Vec3(0, 1, 0), "null"),
      Walk(2, 0, 3),
      Place("redstone_torch", <<0, -1, 3>>, Vec3(1, 0, 0), "null"),
      Place("smooth_stone", <<1, -1, 3>>, Vec3(0, 1, 0), "null"),
      Place("redstone_torch", <<1, 0, 3>>, Vec3(0, 1, 0), "null"),
      Place("smooth_stone", <<1, 1, 3>>, Vec3(0, 1, 0), "null"),
      Place("smooth_stone", <<1, 2, 3>>, Vec3(-1, 0, 0), "null"),
      Place("smooth_stone", <<0, 2, 3>>, Vec3(-1, 0, 0), "null"),
      Place("smooth_stone", <<-1, 2, 3>>, Vec3(0, 1, 0), "null"),
      Place("smooth_stone", <<-1, 3, 3>>, Vec3(0, 1, 0), "null"),
      Place("redstone", <<1, 2, 3>>, Vec3(0, 1, 0), "null"),
      Place("redstone", <<0, 2, 3>>, Vec3(0, 1, 0), "null"),
      Walk(-1, 0, 3),
      Dig(<<<<-1, 2, 3>>, <<-1, 3, 3>>>>),
      Place("piston", <<-1, 4, 3>>, Vec3(0, -1, 0), "null"),
      Place("redstone", <<1, -2, 2>>, Vec3(0, 1, 0), "null"),
      Place("redstone", <<1, -2, 1>>, Vec3(0, 1, 0), "null"),
      Place("redstone", <<0, -2, 1>>, Vec3(0, 1, 0), "null"),
      Walk(0, 0, 0),
      Place("repeater", <<0, -2, 2>>, Vec3(0, 1, 0), "null"),
      Place("lever", <<1, 0, 3>>, Vec3(0, 0, 1), "null"),
      Toggle("lever", 1, 0, 2),
      Toggle("repeater", 0, -1, 2),
      Place("smooth_stone", <<-1, -1, 2>>, Vec3(0, 1, 0), "null"),
      Walk(-1, 1, 2),
      Place("observer", <<-1, 0, 3>>, Vec3(0, 1, 0), "down"),
      Place("rail", <<-1, 1, 3>>, Vec3(0, 1, 0), "null"),
      Place("hopper_minecart", <<-1, 2, 3>>, Vec3(0, 1, 0), "null"),
      Walk(0, 0, 0),
      Toggle("lever", 1, 0, 2)>>

\* cane.js 239-395
makeCaneMachine ==
    <<Jump(5000),
      North(10),
      Acquire,
      Origin,
      Place("chest", <<0, -1, 1>>, Vec3(0, 1, 0), "null"),
      Walk(0, 0, 8),
      Control("sneak", TRUE),
      Place("hopper", <<0, 0, 2>>, Vec3(0, 0, -1), "null"),
      Place("hopper", <<0, 0, 2>>, Vec3(0, 0, -1), "null"),
      Place("hopper", <<0, 0, 3>>, Vec3(-1, 0, 0), "null"),
      Place("hopper", <<-1, 0, 3>>, Vec3(-1, 0, 0), "null"),
      Place("hopper", <<0, 0, 3>>, Vec3(1, 0, 0), "null"),
      Place("hopper", <<1, 0, 3>>, Vec3(1, 0, 0), "null"),
      Place("powered_rail", <<-2, 0, 3>>, Vec3(0, 1, 0), "null"),
      Place("rail", <<-1, 0, 3>>, Vec3(0, 1, 0), "null"),
      Place("rail", <<0, 0, 3>>, Vec3(0, 1, 0), "null"),
      Place("rail", <<1, 0, 3>>, Vec3(0, 1, 0), "null"),
      Place("powered_rail", <<2, 0, 3>>, Vec3(0, 1, 0), "null"),
      Control("sneak", FALSE),
      Place("oak_planks", <<-3, -1, 3>>, Vec3(0, 1, 0), "null"),
      Place("oak_planks", <<-3, 0, 3>>, Vec3(0, 1, 0), "null"),
      Place("oak_planks", <<3, -1, 3>>, Vec3(0, 1, 0), "null"),
      Place("oak_planks", <<3, 0, 3>>, Vec3(0, 1, 0), "null"),
      Place("oak_planks", <<-3, -1, 4>>, Vec3(0, 1, 0), "null"),
      Place("oak_planks", <<-3, 0, 4>>, Vec3(0, 1, 0), "null"),
      Place("oak_planks", <<3, -1, 4>>, Vec3(0, 1, 0), "null"),
      Place("oak_planks", <<3, 0, 4>>, Vec3(0, 1, 0), "null"),
      Place("oak_planks", <<-2, -1, 4>>, Vec3(0, 1, 0), "null"),
      Place("redstone_block", <<-2, 0, 4>>, Vec3(0, 1, 0), "null"),
      Place("oak_planks", <<-1, -1, 4>>, Vec3(0, 1, 0), "null"),
      Place("oak_planks", <<-1, 0, 4>>, Vec3(0, 1, 0), "null"),
      Place("oak_planks", <<2, -1, 4>>, Vec3(0, 1, 0), "null"),
      Place("redstone_block", <<2, 0, 4>>, Vec3(0, 1, 0), "null"),
      Place("oak_planks", <<1, -1, 4>>, Vec3(0, 1, 0), "null"),
      Place("oak_planks", <<1, 0, 4>>, Vec3(0, 1, 0), "null"),
      Place("oak_planks", <<0, -1, 4>>, Vec3(0, 1, 0), "null"),
      Place("oak_planks", <<0, 0, 4>>, Vec3(0, 1, 0), "null"),
      Place("grass_block", <<-3, -1, 5>>, Vec3(0, 1, 0), "null"),
      Walk(0, 2, 4),
      Place("grass_block", <<-2, 1, 3>>, Vec3(0, 1, 0), "null"),
      Place("grass_block", <<-1, 1, 3>>, Vec3(0, 1, 0), "null"),
      Place("grass_block", <<0, 1, 3>>, Vec3(0, 1, 0), "null"),
      Place("grass_block", <<1, 1, 3>>, Vec3(0, 1, 0), "null"),
      Place("grass_block", <<2, 1, 3>>, Vec3(0, 1, 0), "null"),
      Place("oak_planks", <<3, 1, 4>>, Vec3(0, 1, 0), "null"),
      Place("oak_planks", <<3, 1, 3>>, Vec3(0, 1, 0), "null"),
      Place("oak_planks", <<-3, 1, 4>>, Vec3(0, 1, 0), "null"),
      Place("oak_planks", <<-3, 1, 3>>, Vec3(0, 1, 0), "null"),
      Place("oak_planks", <<-3, 2, 3>>, Vec3(0, 0, 1), "null"),
      Place("oak_planks", <<-3, 2, 2>>, Vec3(1, 0, 0), "null"),
      Place("oak_planks", <<-2, 2, 2>>, Vec3(1, 0, 0), "null"),
      Place("oak_planks", <<-1, 2, 2>>, Vec3(1, 0, 0), "null"),
      Place("oak_planks", <<0, 2, 2>>, Vec3(1, 0, 0), "null"),
      Place("oak_planks", <<1, 2, 2>>, Vec3(1, 0, 0), "null"),
      Place("oak_planks", <<2, 2, 2>>, Vec3(1, 0, 0), "null"),
      Place("oak_planks", <<-3, 2, 4>>, Vec3(0, 0, -1), "null"),
      Place("oak_planks", <<-3, 2, 5>>, Vec3(1, 0, 0), "null"),
      Place("oak_planks", <<-2, 2, 5>>, Vec3(1, 0, 0), "null"),
      Place("oak_planks", <<-1, 2, 5>>, Vec3(1, 0, 0), "null"),
      Place("oak_planks", <<0, 2, 5>>, Vec3(1, 0, 0), "null"),
      Place("oak_planks", <<1, 2, 5>>, Vec3(1, 0, 0), "null"),
      Place("oak_planks", <<2, 2, 5>>, Vec3(1, 0, 0), "null"),
      Walk(0, 4, 3),
      Pour(-2, 2, 4),
      Pour(-1, 2, 4),
      Pour(0, 2, 4),
      Pour(1, 2, 4),
      Pour(2, 2, 4),
      Place("sugar_cane", <<2, 2, 3>>, Vec3(0, 1, 0), "null"),
      Place("sugar_cane", <<1, 2, 3>>, Vec3(0, 1, 0), "null"),
      Place("sugar_cane", <<0, 2, 3>>, Vec3(0, 1, 0), "null"),
      Place("sugar_cane", <<-1, 2, 3>>, Vec3(0, 1, 0), "null"),
      Place("sugar_cane", <<-2, 2, 3>>, Vec3(0, 1, 0), "null"),
      Place("oak_planks", <<3, 2, 4>>, Vec3(0, 1, 0), "null"),
      Place("oak_planks", <<-3, 2, 4>>, Vec3(0, 1, 0), "null"),
      Place("oak_planks", <<3, 3, 4>>, Vec3(-1, 0, 0), "null"),
      Place("oak_planks", <<2, 3, 4>>, Vec3(-1, 0, 0), "null"),
      Place("oak_planks", <<1, 3, 4>>, Vec3(-1, 0, 0), "null"),
      Place("oak_planks", <<0, 3, 4>>, Vec3(-1, 0, 0), "null"),
      Place("oak_planks", <<-1, 3, 4>>, Vec3(-1, 0, 0), "null"),
      Walk(-2, 4, 3),
      Place("piston", <<-2, 3, 4>>, Vec3(0, 1, 0), "null"),
      Walk(-1, 4, 3),
      Place("piston", <<-1, 3, 4>>, Vec3(0, 1, 0), "null"),
      Walk(0, 4, 3),
      Place("piston", <<0, 3, 4>>, Vec3(0, 1, 0), "null"),
      Walk(1, 4, 3),
      Place("piston", <<1, 3, 4>>, Vec3(0, 1, 0), "null"),
      Walk(2, 4, 3),
      Place("piston", <<2, 3, 4>>, Vec3(0, 1, 0), "null"),
      Walk(3, 4, 4),
      Place("grass_block", <<-2, 2, 5>>, Vec3(0, 1, 0), "null"),
      Place("grass_block", <<-1, 2, 5>>, Vec3(0, 1, 0), "null"),
      Place("grass_block", <<0, 2, 5>>, Vec3(0, 1, 0), "null"),
      Place("grass_block", <<1, 2, 5>>, Vec3(0, 1, 0), "null"),
      Place("grass_block", <<2, 2, 5>>, Vec3(0, 1, 0), "null"),
      Place("grass_block", <<3, 2, 5>>, Vec3(0, 1, 0), "null"),
      Walk(-2, 5, 6),
      Place("observer", <<-2, 4, 4>>, Vec3(0, 1, 0), "null"),
      Walk(-1, 5, 6),
      Place("observer", <<-1, 4, 4>>, Vec3(0, 1, 0), "null"),
      Walk(0, 5, 6),
      Place("observer", <<0, 4, 4>>, Vec3(0, 1, 0), "null"),
      Walk(1, 5, 6),
      Place("observer", <<1, 4, 4>>, Vec3(0, 1, 0), "null"),
      Walk(2, 5, 6),
      Place("observer", <<2, 4, 4>>, Vec3(0, 1, 0), "null"),
      Walk(3, 5, 6),
      Place("grass_block", <<-2, 3, 5>>, Vec3(0, 1, 0), "null"),
      Place("grass_block", <<-1, 3, 5>>, Vec3(0, 1, 0), "null"),
      Place("grass_block", <<0, 3, 5>>, Vec3(0, 1, 0), "null"),
      Place("grass_block", <<1, 3, 5>>, Vec3(0, 1, 0), "null"),
      Place("grass_block", <<2, 3, 5>>, Vec3(0, 1, 0), "null"),
      Place("redstone", <<2, 4, 5>>, Vec3(0, 1, 0), "null"),
      Place("redstone", <<1, 4, 5>>, Vec3(0, 1, 0), "null"),
      Place("redstone", <<0, 4, 5>>, Vec3(0, 1, 0), "null"),
      Place("redstone", <<-1, 4, 5>>, Vec3(0, 1, 0), "null"),
      Place("redstone", <<-2, 4, 5>>, Vec3(0, 1, 0), "null"),
      Walk(0, 2, 2),
      Place("glass", <<-3, 2, 3>>, Vec3(0, 1, 0), "null"),
      Place("glass", <<-3, 3, 3>>, Vec3(0, 1, 0), "null"),
      Place("glass", <<-3, 4, 3>>, Vec3(0, 1, 0), "null"),
      Place("glass", <<-2, 2, 2>>, Vec3(0, 1, 0), "null"),
      Place("glass", <<-2, 3, 2>>, Vec3(0, 1, 0), "null"),
      Place("glass", <<-2, 4, 2>>, Vec3(0, 1, 0), "null"),
      Place("glass", <<-1, 2, 2>>, Vec3(0, 1, 0), "null"),
      Place("glass", <<-1, 3, 2>>, Vec3(0, 1, 0), "null"),
      Place("glass", <<-1, 4, 2>>, Vec3(0, 1, 0), "null"),
      Place("glass", <<3, 2, 3>>, Vec3(0, 1, 0), "null"),
      Place("glass", <<3, 3, 3>>, Vec3(0, 1, 0), "null"),
      Place("glass", <<3, 4, 3>>, Vec3(0, 1, 0), "null"),
      Place("glass", <<2, 2, 2>>, Vec3(0, 1, 0), "null"),
      Place("glass", <<2, 3, 2>>, Vec3(0, 1, 0), "null"),
      Place("glass", <<2, 4, 2>>, Vec3(0, 1, 0), "null"),
      Place("glass", <<1, 2, 2>>, Vec3(0, 1, 0), "null"),
      Place("glass", <<1, 3, 2>>, Vec3(0, 1, 0), "null"),
      Place("glass", <<1, 4, 2>>, Vec3(0, 1, 0), "null"),
      Walk(0, 1, 1),
      Place("glass", <<0, 2, 2>>, Vec3(0, 1, 0), "null"),
      Place("glass", <<0, 3, 2>>, Vec3(0, 1, 0), "null"),
      Place("glass", <<0, 4, 2>>, Vec3(0, 1, 0), "null"),
      Walk(1, 0, 1),
      Place("hopper_minecart", <<2, 1, 3>>, Vec3(0, 1, 0), "null"),
      Walk(0, 0, 8)>>

----------------------------------------------------------------------------
(* The harness: the primitives invoked one at a time, on small worlds.     *)

\* every item name the two files use
AllItems ==
    {"rail", "smooth_stone", "piston", "observer", "redstone", "hopper_minecart",
     "redstone_torch", "repeater", "lever", "chest", "hopper", "powered_rail",
     "oak_planks", "redstone_block", "grass_block", "water_bucket", "sugar_cane",
     "glass"}

\* the loaded cells of the harness world: a 3 x 4 x 3 box, the bot standing on
\* the ground in the middle of its south face
HarnessCells == {<<x, y, z>> : x \in -1..1, y \in -2..1, z \in -2..0}

\* stone ground two deep, with one bedrock cell and one hole in its top layer,
\* a lever standing on it, air above
HarnessWorld ==
    [c \in HarnessCells |->
        IF c = <<1, -1, -1>> THEN "bedrock"
        ELSE IF c = <<0, -1, -2>> THEN "air"
        ELSE IF c[2] < 0 THEN "stone"
        ELSE IF c = <<1, 0, -2>> THEN "lever"
        ELSE "air"]

\* the bot's state as the primitives see it: cheats says whether the server
\* obeys /give
State(cheats) ==
    [origin |-> origin, entity |-> entity, blocks |-> blocks, inv |-> inv,
     held |-> held, ctrl |-> ctrl, interrupt |-> interrupt, cheats |-> cheats,
     calls |-> <<>>, log |-> <<>>, resolved |-> <<>>, writes |-> <<>>,
     env |-> env]

NoArgs == [item |-> "", coords |-> <<>>, dir |-> <<>>, facing |-> "", list |-> <<>>]

\* the invocation ends with result r: the bot's state is what r left, and the
\* invocation is recorded with the state it started in (in the environment
\* "any", where a step has very many traces, without its trace, unless the step
\* is a toggle)
Commit(r, op, args, mid) ==
    /\ origin' = r.s.origin
    /\ entity' = r.s.entity
    /\ blocks' = r.s.blocks
    /\ inv' = r.s.inv
    /\ held' = r.s.held
    /\ ctrl' = r.s.ctrl
    /\ interrupt' = r.s.interrupt
    /\ leverUses' = leverUses + Len(SelectSeq(r.s.calls, LAMBDA c :
                                     c[1] = "activateBlock" /\ c[3] = "lever"))
    /\ last' = [op |-> op, args |-> args, status |-> r.status, value |-> r.value,
                calls |-> IF env = "any" /\ op # "toggleBlock" THEN <<>> ELSE r.s.calls,
                log |-> IF env = "any" /\ op # "toggleBlock" THEN <<>> ELSE r.s.log,
                resolved |-> IF env = "any" THEN <<>> ELSE r.s.resolved,
                writes |-> r.s.writes,
                pre |-> [origin |-> origin, entity |-> entity, blocks |-> blocks,
                         inv |-> inv, held |-> held, interrupt |-> interrupt],
                mid |-> mid]

StartPositions == {<<5, 0, 5>>, <<-3, 0, 0>>}
StartOrigins == {NoOrigin, [position |-> <<5, 0, 5>>, yaw |-> 1]}
StartStock == {0, 1, 64}

NoResult == Ret(0, "undefined")

InitBot ==
    /\ held = [h \in Hands |-> "none"]
    /\ ctrl = [c \in {"jump", "sneak"} |-> FALSE]
    /\ interrupt \in BOOLEAN
    /\ last = [op |-> "none", args |-> NoArgs, status |-> "returned", value |-> "undefined",
               calls |-> <<>>, log |-> <<>>, resolved |-> <<>>, writes |-> <<>>,
               pre |-> [origin |-> origin, entity |-> entity, blocks |-> blocks,
                        inv |-> inv, held |-> held, interrupt |-> interrupt],
               mid |-> NoResult]
    /\ ncalls = 0
    /\ busy = {}
    /\ leverUses = 0

\* the harness starts with the bot somewhere on the ground, with or without an
\* origin set earlier, and any stock
Init ==
    /\ origin \in StartOrigins
    /\ \E p \in StartPositions :
         entity = [position |-> p, yaw |-> 0, height |-> 18, look |-> p]
    /\ blocks = HarnessWorld
    /\ \E n \in StartStock : inv = [i \in AllItems |-> n]
    /\ env = "world"
    /\ machine = "none"
    /\ pc = 0
    /\ InitBot

\* a harness invocation: one more call, no machine running
Invoke ==
    /\ machine = "none"
    /\ ncalls < MaxCalls
    /\ ncalls' = ncalls + 1
    /\ UNCHANGED <<env, machine, pc, busy>>

HarnessItems == {"lever", "smooth_stone"}
\* item, offset, insertion direction, facing
HarnessPlacements ==
    {<<"lever", <<0, -1, 1>>, Vec3(0, 1, 0), "null">>,
     <<"smooth_stone", <<1, -1, 2>>, Vec3(-1, 0, 0), "null">>,
     <<"smooth_stone", <<0, -1, 1>>, Vec3(0, 1, 0), "down">>,
     <<"lever", <<-1, 0, 2>>, Vec3(0, 1, 0), "sideways">>,
     <<"lever", <<0, 2, 1>>, Vec3(0, 1, 0), "north">>,
     <<"smooth_stone", <<0, -1, 1>>, Vec3(0, 1, 0), "north">>,
     <<"smooth_stone", <<0, -1, 1>>, Vec3(0, 1, 0), "east">>}
HarnessOffsets == {<<0, -1, 1>>, <<1, 0, 2>>, <<-1, 2, 1>>}
HarnessDigLists ==
    {<<<<0, -1, 1>>, <<0, 0, 1>>, <<1, -1, 1>>>>,
     <<<<1, -1, 1>>, <<-1, -1, 2>>, <<0, 3, 1>>, <<-1, -1, 2>>>>}

DoEquipItem ==
    /\ Invoke
    /\ \E itemName \in HarnessItems, hand \in Hands :
         \E r \in equipItem(State(FALSE), itemName, hand) :
           Commit(r, "equipItem", [NoArgs EXCEPT !.item = itemName, !.facing = hand], NoResult)

DoSetOrigin ==
    /\ Invoke
    /\ \E r \in setOrigin(State(FALSE)) : Commit(r, "setOrigin", NoArgs, NoResult)

DoPlaceOnBlock ==
    /\ Invoke
    /\ \E d \in HarnessPlacements :
         \E r \in placeOnBlock(State(FALSE), d[1], d[2], d[3], d[4]) :
           Commit(r, "placeOnBlock",
                  [NoArgs EXCEPT !.item = d[1], !.coords = d[2], !.dir = d[3], !.facing = d[4]],
                  NoResult)

DoCanePlaceOnBlock ==
    /\ Invoke
    /\ \E d \in HarnessPlacements :
         \E r \in cane_placeOnBlock(State(FALSE), d[1], d[2], d[3]) :
           Commit(r, "cane_placeOnBlock",
                  [NoArgs EXCEPT !.item = d[1], !.coords = d[2], !.dir = d[3]], NoResult)

\* placeOnBlock invoked twice in a row with the same arguments; the result of
\* the first invocation is kept beside the second's
DoPlaceOnBlockTwice ==
    /\ Invoke
    /\ \E d \in HarnessPlacements :
         \E r1 \in placeOnBlock(State(FALSE), d[1], d[2], d[3], d[4]) :
           /\ \E r2 \in placeOnBlock([r1.s EXCEPT !.calls = <<>>, !.log = <<>>,
                                             !.resolved = <<>>, !.writes = <<>>],
                                     d[1], d[2], d[3], d[4]) :
                Commit(r2, "placeOnBlock_twice",
                       [NoArgs EXCEPT !.item = d[1], !.coords = d[2], !.dir = d[3],
                                      !.facing = d[4]],
                       [r1 EXCEPT !.s = r1.s.blocks])

DoPourWaterInHole ==
    /\ Invoke
    /\ \E c \in HarnessOffsets :
         \E r \in pourWaterInHole(State(FALSE), c[1], c[2], c[3]) :
           Commit(r, "pourWaterInHole", [NoArgs EXCEPT !.coords = c], NoResult)

DoWalkTo ==
    /\ Invoke
    /\ \E c \in HarnessOffsets :
         \E r \in walkTo(State(FALSE), c[1], c[2], c[3]) :
           Commit(r, "walkTo", [NoArgs EXCEPT !.coords = c], NoResult)

DoWalkNorth ==
    /\ Invoke
    /\ \E r \in walkNorth(State(FALSE), 1) :
         Commit(r, "walkNorth", NoArgs, NoResult)

DoAcquireItems ==
    /\ Invoke
    /\ \E cheats \in BOOLEAN :
         \E r \in acquireItems(State(cheats), requiredItems) :
           Commit(r, "acquireItems", [NoArgs EXCEPT !.list = requiredItems], NoResult)

DoCaneAcquireItems ==
    /\ Invoke
    /\ \E cheats \in BOOLEAN :
         \E r \in acquireItems(State(cheats), cane_requiredItems) :
           Commit(r, "cane_acquireItems", [NoArgs EXCEPT !.list = cane_requiredItems], NoResult)

DoJumpForDuration ==
    /\ Invoke
    /\ \E r \in jumpForDuration(State(FALSE), 5000) :
         Commit(r, "jumpForDuration", NoArgs, NoResult)

DoToggleBlock ==
    /\ Invoke
    /\ \E blockType \in {"lever", "repeater"}, c \in HarnessOffsets :
         \E r \in toggleBlock(State(FALSE), blockType, c[1], c[2], c[3]) :
           Commit(r, "toggleBlock", [NoArgs EXCEPT !.item = blockType, !.coords = c], NoResult)

DoDig ==
    /\ Invoke
    /\ \E l \in HarnessDigLists :
         \E r \in dig(State(FALSE), l) :
           Commit(r, "dig", [NoArgs EXCEPT !.list = l], NoResult)

Next ==
    \/ DoEquipItem
    \/ DoSetOrigin
    \/ DoPlaceOnBlock
    \/ DoCanePlaceOnBlock
    \/ DoPlaceOnBlockTwice
    \/ DoPourWaterInHole
    \/ DoWalkTo
    \/ DoWalkNorth
    \/ DoAcquireItems
    \/ DoCaneAcquireItems
    \/ DoJumpForDuration
    \/ DoToggleBlock
    \/ DoDig

Spec == Init /\ [][Next]_vars

----------------------------------------------------------------------------
(* The machines running: one action per step of the script.                *)

\* the loaded cells around the place the machines are built at
MachineCells == {<<x, y, z>> : x \in -4..4, y \in -3..6, z \in -19..-9}

\* flat stone ground, air above
MachineWorld == [c \in MachineCells |-> IF c[2] < 0 THEN "stone" ELSE "air"]

Script(m) == IF m = "rail" THEN makeRailMachine ELSE makeCaneMachine

\* the statement st of machine m, run in state s
RunStep(s, st, m) ==
    CASE st.op = "jumpForDuration" -> jumpForDuration(s, st.n)
      [] st.op = "walkNorth" -> walkNorth(s, st.n)
      [] st.op = "acquireItems" ->
           acquireItems(s, IF m = "rail" THEN requiredItems ELSE cane_requiredItems)
      [] st.op = "setOrigin" -> setOrigin(s)
      [] st.op = "dig" -> dig(s, st.list)
      [] st.op = "walkTo" -> walkTo(s, st.coords[1], st.coords[2], st.coords[3])
      [] st.op = "pourWaterInHole" ->
           pourWaterInHole(s, st.coords[1], st.coords[2], st.coords[3])
      [] st.op = "toggleBlock" ->
           toggleBlock(s, st.item, st.coords[1], st.coords[2], st.coords[3])
      [] st.op = "placeOnBlock" ->
           IF m = "rail"
           THEN placeOnBlock(s, st.item, st.coords, st.dir, st.facing)
           ELSE cane_placeOnBlock(s, st.item, st.coords, st.dir)
      [] st.op = "setControlState" ->
           {Ret(setControlState(s, st.item, st.n = 1), "undefined")}

InitMachines ==
    /\ origin = NoOrigin
    /\ entity = [position |-> <<5, 0, 5>>, yaw |-> 0, height |-> 18, look |-> <<5, 0, 5>>]
    /\ env \in {"faultless", "any"}
    /\ blocks = IF env = "any" THEN [c \in {} |-> "air"] ELSE MachineWorld
    /\ \E n \in {0, 64} : inv = [i \in AllItems |-> n]
    /\ machine = "none"
    /\ pc = 0
    /\ InitBot

Running == machine # "none" /\ pc \in 1..Len(Script(machine))

\* the caller invokes a machine, once no machine runs
Start(m) ==
    /\ ~Running
    /\ busy = {}
    /\ ncalls < MaxRuns
    /\ ncalls' = ncalls + 1
    /\ machine' = m
    /\ pc' = 1
    /\ leverUses' = 0
    /\ UNCHANGED <<origin, entity, blocks, inv, held, ctrl, interrupt, last, env, busy>>

StartRail == /\ Start("rail")
StartCane == /\ Start("cane")

\* a runner that looks at the interrupt signal before each statement and
\* ends the run once it is set
Step_checksInterrupt(m) ==
    /\ Running
    /\ machine = m
    /\ \/ /\ interrupt
          /\ pc' = -1
          /\ UNCHANGED <<origin, entity, blocks, inv, held, ctrl, interrupt, last, leverUses>>
       \/ /\ ~interrupt
          /\ LET st == Script(m)[pc]
             IN  \E cheats \in (IF st.op = "acquireItems" THEN BOOLEAN ELSE {TRUE}) :
                   \E r \in RunStep(State(cheats), st, m) :
                     /\ Commit(r, st.op,
                               [NoArgs EXCEPT !.item = st.item, !.coords = st.coords,
                                              !.dir = st.dir, !.facing = st.facing,
                                              !.list = st.list],
                               NoResult)
                     /\ pc' = IF r.status = "raised" THEN -1 ELSE pc + 1
    /\ UNCHANGED <<env, machine, ncalls, busy>>

\* a runner that gives the run up when a statement returned false
Step_stopsOnFalse(m) ==
    /\ Running
    /\ machine = m
    /\ LET st == Script(m)[pc]
       IN  \E cheats \in (IF st.op = "acquireItems" THEN BOOLEAN ELSE {TRUE}) :
             \E r \in RunStep(State(cheats), st, m) :
               /\ Commit(r, st.op,
                         [NoArgs EXCEPT !.item = st.item, !.coords = st.coords, !.dir = st.dir,
                                        !.facing = st.facing, !.list = st.list],
                         NoResult)
               /\ pc' = IF r.status = "raised" \/ r.value = "false" THEN -1 ELSE pc + 1
    /\ UNCHANGED <<env, machine, ncalls, busy>>

\* the machine's next statement runs; a fault it lets out ends the run
Step(m) ==
    /\ Running
    /\ machine = m
    /\ LET st == Script(m)[pc]
       IN  \E cheats \in (IF st.op = "acquireItems" THEN BOOLEAN ELSE {TRUE}) :
             \E r \in RunStep(State(cheats), st, m) :
               /\ Commit(r, st.op,
                         [NoArgs EXCEPT !.item = st.item, !.coords = st.coords, !.dir = st.dir,
                                        !.facing = st.facing, !.list = st.list],
                         NoResult)
               /\ pc' = IF r.status = "raised" THEN -1 ELSE pc + 1
    /\ UNCHANGED <<env, machine, ncalls, busy>>

StepRail == /\ Step("rail")
StepCane == /\ Step("cane")

NextMachines ==
    \/ StartRail
    \/ StartCane
    \/ StepRail
    \/ StepCane

SpecMachines == InitMachines /\ [][NextMachines]_vars

----------------------------------------------------------------------------
(* The machines running, with the begin and the end of a statement apart:  *)
(* a statement is begun when the body reaches it, and settles when the     *)
(* promise of its call does.                                               *)

\* a statement that is not awaited would let the body go on before it settles
isAwaited_none(m, k) == FALSE

\* rail.js 314-359, cane.js 240-395: every statement of the two bodies is an
\* await of a primitive's call, or a call of bot.setControlState, which is
\* synchronous
isAwaited(m, k) == k \in 1..Len(Script(m))

InitSteps == InitMachines /\ env = "any"

\* the body reaches its next statement and calls the primitive: it may, once
\* no awaited statement is pending
Begin(m) ==
    /\ Running
    /\ machine = m
    /\ \A k \in busy : ~isAwaited(m, k)
    /\ busy' = busy \cup {pc}
    /\ pc' = pc + 1
    /\ UNCHANGED <<origin, entity, blocks, inv, held, ctrl, interrupt, last, env, machine,
                   ncalls, leverUses>>

BeginRail == /\ Begin("rail")
BeginCane == /\ Begin("cane")

\* a statement that was begun settles: the primitive did its calls and its
\* waits; a fault it lets out ends the run when the statement is awaited
Settle(m) ==
    /\ machine = m
    /\ \E k \in busy :
         LET st == Script(m)[k]
         IN  \E cheats \in (IF st.op = "acquireItems" THEN BOOLEAN ELSE {TRUE}) :
               \E r \in RunStep(State(cheats), st, m) :
                 /\ Commit(r, st.op,
                           [NoArgs EXCEPT !.item = st.item, !.coords = st.coords,
                                          !.dir = st.dir, !.facing = st.facing,
                                          !.list = st.list],
                           NoResult)
                 /\ busy' = busy \ {k}
                 /\ pc' = IF r.status = "raised" /\ isAwaited(m, k) THEN -1 ELSE pc
    /\ UNCHANGED <<env, machine, ncalls>>

SettleRail == /\ Settle("rail")
SettleCane == /\ Settle("cane")

NextSteps ==
    \/ StartRail
    \/ StartCane
    \/ BeginRail
    \/ BeginCane
    \/ SettleRail
    \/ SettleCane

SpecSteps == InitSteps /\ [][NextSteps]_vars

----------------------------------------------------------------------------
(* The properties.  They read the record of the last invocation: its       *)
(* arguments, how it ended, the environment calls it made in order, and    *)
(* the state it started in.                                                *)

\* the calls of one kind the last invocation made, in order
CallsOf(kind) == SelectSeq(last.calls, LAMBDA c : c[1] = kind)

\* origin (ox, oy, oz) and offset (r, u, f) give (ox + r, oy + u, oz - f)
Expected(o, c) == <<o[1] + 10 * c[1], o[2] + 10 * c[2], o[3] - 10 * c[3]>>

PlaceOps == {"placeOnBlock", "cane_placeOnBlock"}

\* C1: placeOnBlock never lets a fault out: whatever the block lookup, the
\* equip, the orientation or the placement do, it returns true or false.
C1_PlaceOnBlockNeverRaises ==
    last.op \in PlaceOps =>
        last.status = "returned" /\ last.value \in {"true", "false"}

\* C2: a machine run lets no fault out, whatever fails in a step: the run goes
\* on to the statements after it, to the end of the script.
C2_RunNeverAborts == pc # -1

\* C3: in one placeOnBlock, bot.placeBlock is called at most 3 times; when
\* every attempt fails with an error that is not the blockUpdate one, it is
\* called exactly 3 times, and only then is false returned: never after 1 or 2
\* such failures.
C3_ThreeAttempts ==
    (last.op \in PlaceOps /\ last.status = "returned") =>
        LET tries == CallsOf("placeBlock")
            allFailed == \A k \in 1..Len(tries) : tries[k][4] = "raise"
        IN  /\ Len(tries) <= 3
            /\ (Len(tries) > 0 /\ allFailed) => (Len(tries) = 3 /\ last.value = "false")
            /\ (Len(tries) > 0 /\ last.value = "false") => (Len(tries) = 3 /\ allFailed)

\* three attempts failed, and false came back
C3_Witness ==
    /\ last.op = "placeOnBlock"
    /\ last.value = "false"
    /\ Len(CallsOf("placeBlock")) = 3
    /\ \A k \in 1..3 : CallsOf("placeBlock")[k][4] = "raise"

\* C4: when an attempt raises the error whose message contains "blockUpdate",
\* placeOnBlock returns true at once and makes no further attempt, also when
\* earlier attempts of the invocation failed with other errors.
C4_BenignIsSuccess ==
    last.op \in PlaceOps =>
        LET tries == CallsOf("placeBlock")
        IN  \A k \in 1..Len(tries) :
              tries[k][4] = "noUpdate" =>
                  /\ k = Len(tries)
                  /\ last.status = "returned"
                  /\ last.value = "true"

\* a failed attempt, then the blockUpdate error on the second: true
C4_Witness ==
    /\ last.op = "placeOnBlock"
    /\ Len(CallsOf("placeBlock")) = 2
    /\ CallsOf("placeBlock")[1][4] = "raise"
    /\ CallsOf("placeBlock")[2][4] = "noUpdate"
    /\ last.value = "true"

\* the environment calls that carry the point a primitive resolved
TargetCall(op) ==
    CASE op \in PlaceOps -> "blockAt"
      [] op = "walkTo" -> "goToPosition"
      [] op = "pourWaterInHole" -> "lookAt"
      [] op = "toggleBlock" -> "blockAt"
      [] op = "dig" -> "blockAt"

\* the offsets the last invocation was given, in order
OffsetsOf(l) == IF l.op = "dig" THEN l.args.list ELSE <<l.args.coords>>

\* C5: with bot.origin at (ox, oy, oz), placeOnBlock, walkTo, pourWaterInHole,
\* toggleBlock and dig, given the offset (r, u, f), resolve (ox + r, oy + u,
\* oz - f) and go to the environment with that point (its cell, for the block
\* lookups), whatever heading the origin recorded.
C5_Resolution ==
    last.op \in PlaceOps \cup {"walkTo", "pourWaterInHole", "toggleBlock", "dig"} =>
        LET offsets == OffsetsOf(last)
            targets == CallsOf(TargetCall(last.op))
        IN  /\ Len(last.resolved) = Len(offsets)
            /\ \A i \in 1..Len(offsets) :
                 last.resolved[i] = Expected(origin.position, offsets[i])
            /\ \A i \in 1..Len(targets) :
                 CellOf(targets[i][2]) = CellOf(Expected(origin.position, offsets[i]))

\* a placement resolved against an origin whose heading is not the north one,
\* with an offset that has all three components
C5_Witness ==
    /\ last.op = "placeOnBlock"
    /\ last.pre.origin # NoOrigin
    /\ last.pre.origin.yaw = 1
    /\ last.args.coords = <<1, -1, 2>>
    /\ Len(CallsOf("blockAt")) = 1

\* C6 as stated: equipItem returns false without raising and without calling
\* bot.equip when the item is not in the inventory; when the item is there it
\* returns true with the item in the requested hand.
C6_AsStated ==
    last.op = "equipItem" =>
        LET itemName == last.args.item
            hand == last.args.facing
        IN  /\ last.status = "returned"
            /\ last.pre.inv[itemName] = 0 =>
                 (last.value = "false" /\ CallsOf("equip") = <<>>)
            /\ last.pre.inv[itemName] > 0 =>
                 (last.value = "true" /\ held[hand] = itemName)

\* C6: equipItem never raises.  When the item is not in the inventory it
\* returns false without calling bot.equip.  When the item is there it calls
\* bot.equip once, for the requested hand: it returns true with the item in
\* that hand when the call succeeds, and false when the call raises.
C6_EquipItem ==
    last.op = "equipItem" =>
        LET itemName == last.args.item
            hand == last.args.facing
            equips == CallsOf("equip")
        IN  /\ last.status = "returned"
            /\ last.pre.inv[itemName] = 0 =>
                 (last.value = "false" /\ equips = <<>> /\ held = last.pre.held)
            /\ last.pre.inv[itemName] > 0 =>
                 /\ Len(equips) = 1
                 /\ equips[1][2] = itemName
                 /\ equips[1][3] = hand
                 /\ IF equips[1][4] = "ok"
                    THEN last.value = "true" /\ held[hand] = itemName
                    ELSE last.value = "false"

\* the item is there, bot.equip raised, and false came back
C6_Witness ==
    /\ last.op = "equipItem"
    /\ last.pre.inv[last.args.item] > 0
    /\ Len(CallsOf("equip")) = 1
    /\ CallsOf("equip")[1][4] = "raise"
    /\ last.value = "false"

\* the cells the offsets of the last dig name
DigCells ==
    [i \in 1..Len(last.args.list) |-> CellOf(Expected(origin.position, last.args.list[i]))]

Diggable(world, cell) == cell \in DOMAIN world /\ world[cell] \notin {"air", "bedrock"}

\* C7: dig looks at every position of its list, whatever happened at the
\* earlier ones, and returns without raising; a position that holds a diggable
\* block other than air is dug, and one whose bot.dig call succeeded ends empty.
C7_DigGoesOn ==
    last.op = "dig" =>
        LET looks == CallsOf("blockAt")
            digs == CallsOf("dig")
        IN  /\ last.status = "returned"
            /\ Len(looks) = Len(last.args.list)
            /\ \A i \in 1..Len(looks) : CellOf(looks[i][2]) = DigCells[i]
            /\ \A i \in 1..Len(DigCells) :
                 Diggable(last.pre.blocks, DigCells[i]) =>
                     \E k \in 1..Len(digs) : digs[k][2] = DigCells[i]
            /\ \A k \in 1..Len(digs) :
                 /\ Diggable(last.pre.blocks, digs[k][2])
                 /\ digs[k][3] = "ok" => blocks[digs[k][2]] = "air"

\* a bot.dig call raised, and a later position of the list was dug all the same
C7_Witness ==
    /\ last.op = "dig"
    /\ \E j, k \in 1..Len(CallsOf("dig")) :
         /\ j < k
         /\ CallsOf("dig")[j][3] = "raise"
         /\ CallsOf("dig")[k][3] = "ok"

\* the requests the last invocation made for one item
GivesOf(itemName) == SelectSeq(CallsOf("chat"), LAMBDA c : c[2] = itemName)

\* C8: acquireItems reads the live count of each required item once; it asks
\* for the item once, for required minus count, when the count is below the
\* requirement, and does not ask for it when the count is at or above.
C8_Shortfall ==
    last.op \in {"acquireItems", "cane_acquireItems"} =>
        LET required == last.args.list
            reads == CallsOf("getInventoryCounts")
        IN  /\ last.status = "returned"
            /\ Len(reads) = Len(required)
            /\ \A i \in 1..Len(required) :
                 LET itemName == required[i][1]
                     requiredAmount == required[i][2]
                     currentAmount == reads[i][3]
                 IN  /\ reads[i][2] = itemName
                     /\ currentAmount = last.pre.inv[itemName]
                     /\ GivesOf(itemName) =
                          IF currentAmount < requiredAmount
                          THEN <<<<"chat", itemName, requiredAmount - currentAmount>>>>
                          ELSE <<>>

\* one rail in stock: rail is not asked for, smooth_stone is, for the 7 short
C8_Witness ==
    /\ last.op = "acquireItems"
    /\ last.pre.inv["rail"] = 1
    /\ GivesOf("rail") = <<>>
    /\ GivesOf("smooth_stone") = <<<<"chat", "smooth_stone", 7>>>>

\* C9: toggleBlock makes no bot.activateBlock call when the target cell holds
\* no block or a block of another name than the one asked for; when the names
\* match it makes exactly one, on that block.
C9_ToggleOnlyTheExpected ==
    last.op = "toggleBlock" =>
        LET cell == CellOf(Expected(origin.position, last.args.coords))
            acts == CallsOf("activateBlock")
        IN  IF cell \in DOMAIN last.pre.blocks /\ last.pre.blocks[cell] = last.args.item
            THEN Len(acts) = 1 /\ acts[1][2] = cell /\ acts[1][3] = last.args.item
            ELSE acts = <<>>

\* the lever was found and activated
C9_Witness ==
    /\ last.op = "toggleBlock"
    /\ last.args.item = "lever"
    /\ Len(CallsOf("activateBlock")) = 1

\* the state the last invocation started in
PreState ==
    [origin |-> last.pre.origin, entity |-> last.pre.entity, blocks |-> last.pre.blocks,
     inv |-> last.pre.inv, held |-> last.pre.held, ctrl |-> ctrl,
     interrupt |-> last.pre.interrupt, cheats |-> FALSE,
     calls |-> <<>>, log |-> <<>>, resolved |-> <<>>, writes |-> <<>>, env |-> env]

\* the worlds one placeOnBlock with the last invocation's arguments may leave
OnceWorlds ==
    {r.s.blocks : r \in placeOnBlock(PreState, last.args.item, last.args.coords,
                                     last.args.dir, last.args.facing)}

\* C10: placeOnBlock twice in a row with the same arguments leaves a world that
\* one invocation leaves; once the first invocation has put the block in, the
\* second changes nothing in the world.
C10_PlaceTwice ==
    last.op = "placeOnBlock_twice" =>
        /\ blocks \in OnceWorlds
        /\ last.mid.s # last.pre.blocks => blocks = last.mid.s

\* the first invocation placed the block, the second was made and returned
C10_Witness ==
    /\ last.op = "placeOnBlock_twice"
    /\ last.mid.s # last.pre.blocks
    /\ last.mid.value = "true"
    /\ last.status = "returned"
    /\ Len(CallsOf("placeBlock")) > 0

ResolvingOps == PlaceOps \cup {"walkTo", "pourWaterInHole", "toggleBlock", "dig"}

\* C11: placeOnBlock, walkTo, pourWaterInHole, toggleBlock and dig have an
\* origin when they resolve: started without one, they first set it from the
\* bot's current position and heading, and what they resolve is resolved
\* against it; started with one, they leave it as it is.
C11_FrameBeforeResolving ==
    last.op \in ResolvingOps =>
        /\ origin # NoOrigin
        /\ \A i \in 1..Len(last.resolved) :
             last.resolved[i] = Expected(origin.position, OffsetsOf(last)[i])
        /\ IF last.pre.origin = NoOrigin
           THEN /\ origin = [position |-> last.pre.entity.position,
                             yaw |-> last.pre.entity.yaw]
                /\ last.writes = <<NoOrigin>>
                /\ last.log # <<>>
                /\ last.log[1] \in {"origin_not_set", "pouring", "toggling", "digging_list"}
           ELSE origin = last.pre.origin /\ last.writes = <<>>

\* a toggle started without an origin, away from the world's zero point
C11_Witness ==
    /\ last.op = "toggleBlock"
    /\ last.pre.origin = NoOrigin
    /\ last.pre.entity.position = <<-3, 0, 0>>
    /\ Len(last.resolved) = 1

C13_WritesOnlyWhenAbsent ==
    machine # "none" => \A i \in 1..Len(last.writes) : last.writes[i] = NoOrigin

\* C14: a machine executes its statements one after the other: at no moment
\* are two of them in progress, the one in progress is the one the body
\* reached last, and the body reaches the next one only once it has settled,
\* whether it returned true or false.
C14_OneAtATime ==
    /\ Cardinality(busy) <= 1
    /\ \A k \in busy : k = pc - 1

\* a placement returned false, and the body has begun the statement after it
C14_Witness ==
    /\ machine = "rail"
    /\ last.op = "placeOnBlock"
    /\ last.status = "returned"
    /\ last.value = "false"
    /\ busy = {pc - 1}
    /\ Script(machine)[pc - 1].op = "placeOnBlock"
    /\ Script(machine)[pc - 2].op = "placeOnBlock"

\* the placement, dig and activate calls among the calls made
BuildCalls(calls) ==
    SelectSeq(calls, LAMBDA c : c[1] \in {"placeBlock", "dig", "activateBlock"})

\* what of a statement's result the later statements depend on, with the
\* placement, dig and activate calls it made
Observable(r) ==
    [calls |-> BuildCalls(r.s.calls), status |-> r.status, blocks |-> r.s.blocks,
     inv |-> r.s.inv, held |-> r.s.held, origin |-> r.s.origin, entity |-> r.s.entity]

\* the results the running machine's next statement may have, the interrupt
\* signal being set or not when it starts
NextResults(cheats) ==
    UNION {RunStep([State(cheats) EXCEPT !.interrupt = b], Script(machine)[pc], machine)
             : b \in BOOLEAN}

\* the outcomes the environment gave to the calls that have one, in call order
Outcomes(calls) ==
    LET answered == SelectSeq(calls, LAMBDA c : c[1] \in {"equip", "lookAt", "placeBlock",
                                                         "activateItem", "activateBlock",
                                                         "dig", "goToPosition"})
    IN  [i \in 1..Len(answered) |-> answered[i][Len(answered[i])]]

\* C15: against an environment whose outcomes are fixed, a machine's sequence
\* of placement, dig and activate calls is fixed too: each statement, begun in
\* a given world and given the same outcomes, makes the same such calls and
\* leaves the same world, however many iterations the timed jump loop made and
\* whenever the interrupt came.
C15_Deterministic ==
    (Running /\ env = "faultless") =>
        \A cheats \in BOOLEAN :
            \A r1, r2 \in NextResults(cheats) :
                Outcomes(r1.s.calls) = Outcomes(r2.s.calls) =>
                    Observable(r1) = Observable(r2)

\* the jump statement is next; it may make one jump or two, or none
C15_Witness ==
    /\ Running
    /\ env = "faultless"
    /\ Script(machine)[pc].op = "jumpForDuration"
    /\ Cardinality({Len(r.s.calls) : r \in NextResults(TRUE)}) > 1

\* the log entries of one kind the last invocation made
Logged(kind) == Len(SelectSeq(last.log, LAMBDA e : e = kind))

\* the calls of one kind of the last invocation that raised
RaisedOf(kind) == SelectSeq(CallsOf(kind), LAMBDA c : c[Len(c)] = "raise")

\* C16: a primitive that fails or skips its action says so in the log before
\* it returns: equipItem for a missing item and for an equip error;
\* placeOnBlock for a missing block, for an item it cannot equip and for every
\* failed attempt; pourWaterInHole for every false it returns; toggleBlock for
\* a block that is not the expected one and for an activation error; dig for
\* every cell it does not dig and for every dig error.
C16_FailuresAreLogged ==
    /\ last.op = "equipItem" =>
         /\ CallsOf("equip") = <<>> => Logged("no_item") = 1
         /\ Logged("equip_error") = Len(RaisedOf("equip"))
    /\ (last.op \in PlaceOps /\ last.status = "returned") =>
         /\ Logged("attempt_failed") = Len(RaisedOf("placeBlock"))
         /\ CallsOf("findInventoryItem") = <<>> => Logged("no_support") = 1
         /\ (CallsOf("findInventoryItem") # <<>> /\ CallsOf("placeBlock") = <<>>) =>
              /\ Logged("cannot_equip") = 1
              /\ Logged("no_item") + Logged("equip_error") = 1
         /\ last.value = "false" =>
              Logged("no_support") + Logged("cannot_equip") + Logged("attempt_failed") >= 1
    /\ last.op = "pourWaterInHole" =>
         /\ last.status = "returned"
         /\ last.value = "false" => Logged("cannot_equip") + Logged("pour_error") = 1
    /\ last.op = "toggleBlock" =>
         /\ CallsOf("activateBlock") = <<>> => Logged("not_found") = 1
         /\ Logged("activate_error") = Len(RaisedOf("activateBlock"))
    /\ last.op = "dig" =>
         /\ Logged("cannot_dig") = Len(last.args.list) - Len(CallsOf("dig"))
         /\ Logged("dig_error") = Len(RaisedOf("dig"))

\* a dig that skipped a cell and had a dig error
C16_Witness ==
    /\ last.op = "dig"
    /\ Logged("cannot_dig") >= 1
    /\ Logged("dig_error") >= 1

\* C17: placeOnBlock fails fast, in a fixed order.  With no block at the
\* resolved coordinate it returns false after the one lookup, without looking
\* for the item, equipping, orienting or placing.  With a block there and the
\* item missing or bot.equip raising, it returns false after the one equip
\* attempt, without orienting or placing.
C17_FailFast ==
    last.op \in PlaceOps =>
        LET cell == CellOf(Expected(origin.position, last.args.coords))
            present == cell \in DOMAIN last.pre.blocks
            noEquip == last.pre.inv[last.args.item] = 0 \/ RaisedOf("equip") # <<>>
        IN  /\ Len(CallsOf("blockAt")) = 1
            /\ ~present =>
                 /\ last.status = "returned" /\ last.value = "false"
                 /\ CallsOf("findInventoryItem") = <<>>
                 /\ CallsOf("equip") = <<>>
                 /\ CallsOf("lookAt") = <<>>
                 /\ CallsOf("placeBlock") = <<>>
            /\ (present /\ noEquip) =>
                 /\ last.status = "returned" /\ last.value = "false"
                 /\ Len(CallsOf("findInventoryItem")) = 1
                 /\ Len(CallsOf("equip")) <= 1
                 /\ CallsOf("lookAt") = <<>>
                 /\ CallsOf("placeBlock") = <<>>

\* the block is there, bot.equip raised, and false came back with no attempt
C17_Witness ==
    /\ last.op = "placeOnBlock"
    /\ RaisedOf("equip") # <<>>
    /\ last.value = "false"
    /\ CallsOf("placeBlock") = <<>>

\* the equip, lookAt and activateItem calls of the last invocation, in order,
\* each with its outcome
PourCalls ==
    LET acts == SelectSeq(last.calls,
                          LAMBDA c : c[1] \in {"equip", "lookAt", "activateItem"})
    IN  [i \in 1..Len(acts) |-> <<acts[i][1], acts[i][Len(acts[i])]>>]

\* C18: pourWaterInHole never raises.  When water_bucket cannot be equipped it
\* returns false without a lookAt or an activateItem call; when lookAt or
\* activateItem raises it returns false; it returns true only after equip,
\* lookAt and activateItem succeeded, in that order.
C18_PourNeverRaises ==
    last.op = "pourWaterInHole" =>
        LET noEquip == last.pre.inv["water_bucket"] = 0 \/ RaisedOf("equip") # <<>>
        IN  /\ last.status = "returned"
            /\ last.value \in {"true", "false"}
            /\ noEquip =>
                 /\ last.value = "false"
                 /\ CallsOf("lookAt") = <<>>
                 /\ CallsOf("activateItem") = <<>>
            /\ RaisedOf("lookAt") # <<>> =>
                 (last.value = "false" /\ CallsOf("activateItem") = <<>>)
            /\ RaisedOf("activateItem") # <<>> => last.value = "false"
            /\ last.value = "true" =>
                 PourCalls = <<<<"equip", "ok">>, <<"lookAt", "ok">>, <<"activateItem", "ok">>>>

\* the bucket was equipped, the bot looked, and bot.activateItem raised
C18_Witness ==
    /\ last.op = "pourWaterInHole"
    /\ PourCalls = <<<<"equip", "ok">>, <<"lookAt", "ok">>, <<"activateItem", "raise">>>>
    /\ last.value = "false"

\* C19: an activation that fails in toggleBlock is logged, not retried and not
\* fatal: the invocation makes no second bot.activateBlock call, it returns,
\* and the machine's run is not ended by it.
C19_ToggleFailureNotFatal ==
    last.op = "toggleBlock" =>
        /\ last.status = "returned"
        /\ pc # -1
        /\ Len(CallsOf("activateBlock")) <= 1
        /\ Logged("activate_error") = Len(RaisedOf("activateBlock"))

\* in a run of the rail machine the activation of the lever raised, and the
\* statement after the toggle is the next to run
C19_Witness ==
    /\ machine = "rail"
    /\ Running
    /\ last.op = "toggleBlock"
    /\ Script(machine)[pc - 1].op = "toggleBlock"
    /\ Len(RaisedOf("activateBlock")) = 1

\* a statement's results, the interrupt signal put aside
SignalAside(results) == {[r EXCEPT !.s.interrupt = FALSE] : r \in results}

\* the results of the running machine's next statement, begun with the
\* interrupt signal as given
ResultsWhen(signal) ==
    RunStep([State(TRUE) EXCEPT !.interrupt = signal], Script(machine)[pc], machine)

\* C20: the interrupt signal is honoured in the timed jump loop only.  A
\* jumpForDuration begun with the signal set stops at its first check, without
\* a jump, and returns; the signal does not end a run (a run ends before its
\* last statement only when a statement raised), and a statement other than
\* the jump does with the signal set what it does without.
C20_InterruptOnlyInJumpLoop ==
    /\ pc = -1 => last.status = "raised"
    /\ (Running /\ env = "faultless" /\ Script(machine)[pc].op # "jumpForDuration") =>
         SignalAside(ResultsWhen(TRUE)) = SignalAside(ResultsWhen(FALSE))
    /\ (last.op = "jumpForDuration" /\ last.pre.interrupt /\ env # "any") =>
         /\ last.status = "returned"
         /\ Logged("interrupted") = 1
         /\ CallsOf("setControlState") = <<<<"setControlState", "jump", FALSE>>>>

\* a run of the cane machine came to its end with the signal set
C20_Witness ==
    /\ machine = "cane"
    /\ interrupt
    /\ last.pre.interrupt
    /\ pc = Len(makeCaneMachine) + 1

\* the place in the last invocation's calls of the first call of one kind, 0
\* when there is none
FirstCall(kind) ==
    IF CallsOf(kind) = <<>> THEN 0
    ELSE CHOOSE i \in 1..Len(last.calls) :
           /\ last.calls[i][1] = kind
           /\ \A j \in 1..(i - 1) : last.calls[j][1] # kind

\* one block in a compass or vertical direction: north is decreasing z, east
\* increasing x
UnitOf(facing) ==
    CASE facing = "north" -> <<0, 0, -10>>
      [] facing = "south" -> <<0, 0, 10>>
      [] facing = "east"  -> <<10, 0, 0>>
      [] facing = "west"  -> <<-10, 0, 0>>
      [] facing = "up"    -> <<0, 10, 0>>
      [] facing = "down"  -> <<0, -10, 0>>

\* C21: in placeOnBlock of rail.js orientation precedes placement.  With a
\* facing among north, south, east, west, up and down, once the block is found
\* and the item equipped there is exactly one bot.lookAt call, toward the point
\* one block in that direction from the bot's head; it comes after the lookup
\* and the successful equip; and when a placement is attempted the lookAt
\* returned, the 200 ms wait follows it at once and both come before the first
\* bot.placeBlock.  With no facing, or with another word, there is no lookAt
\* call and the placement is attempted all the same.  The look target of each
\* of the six words, from where the bot stands, is one block that way from its
\* head; another word has none.
C21_OrientBeforePlacing ==
    /\ LET headPos == plus(entity.position, <<0, entity.height, 0>>)
       IN  /\ \A g \in Facings : lookAtTarget(headPos, g) = plus(headPos, UnitOf(g))
           /\ \A g \in {"null", "sideways", "North", ""} : lookAtTarget(headPos, g) = <<>>
    /\ last.op = "placeOnBlock" =>
        LET f == last.args.facing
            looks == CallsOf("lookAt")
            head == plus(last.pre.entity.position, <<0, last.pre.entity.height, 0>>)
            at == FirstCall("lookAt")
            equipped == \E i \in 1..Len(last.calls) :
                          last.calls[i][1] = "equip" /\ last.calls[i][4] = "ok"
        IN  /\ f \in Facings =>
                 /\ equipped => Len(looks) = 1
                 /\ looks # <<>> =>
                      /\ Len(looks) = 1
                      /\ looks[1][2] = plus(head, UnitOf(f))
                      /\ FirstCall("blockAt") \in 1..(at - 1)
                      /\ CellOf(Expected(origin.position, last.args.coords))
                           \in DOMAIN last.pre.blocks
                      /\ \E i \in 1..(at - 1) :
                           last.calls[i][1] = "equip" /\ last.calls[i][4] = "ok"
                 /\ CallsOf("placeBlock") # <<>> =>
                      /\ looks[1][3] = "ok"
                      /\ last.calls[at + 1] = <<"wait", 200>>
                      /\ at + 1 < FirstCall("placeBlock")
                      /\ Len(CallsOf("wait")) = 1
            /\ f \notin Facings =>
                 /\ looks = <<>>
                 /\ CallsOf("wait") = <<>>
                 /\ equipped => CallsOf("placeBlock") # <<>>

\* a placement with a facing: the bot looked, waited, and then placed
C21_Witness ==
    /\ last.op = "placeOnBlock"
    /\ last.args.facing \in Facings
    /\ Len(CallsOf("lookAt")) = 1
    /\ FirstCall("lookAt") + 1 < FirstCall("placeBlock")
    /\ last.value = "true"

\* what the caller and the environment see of a placeOnBlock result: how it
\* ended, the boolean, the environment calls in order with their outcomes, the
\* log, and the bot and world it left
Seen(r) ==
    [status |-> r.status, value |-> r.value, calls |-> r.s.calls, log |-> r.s.log,
     blocks |-> r.s.blocks, inv |-> r.s.inv, held |-> r.s.held, origin |-> r.s.origin,
     entity |-> r.s.entity]

\* C22: placeOnBlock of cane.js and placeOnBlock of rail.js with
\* facingDirection = null are the same relation: from the state an invocation
\* of either started in, with its item, offset and direction, each result of
\* the one (its environment calls in order with the outcomes the environment
\* gave, the boolean returned, the world left) is a result of the other, and
\* the invocation just made is among them.
C22_CopiesAgree ==
    (last.op = "cane_placeOnBlock" \/ (last.op = "placeOnBlock" /\ last.args.facing = "null")) =>
        LET ofCane == {Seen(r) : r \in cane_placeOnBlock(PreState, last.args.item,
                                                         last.args.coords, last.args.dir)}
            ofRail == {Seen(r) : r \in placeOnBlock(PreState, last.args.item,
                                                    last.args.coords, last.args.dir, "null")}
        IN  /\ ofCane = ofRail
            /\ \E v \in ofCane :
                 /\ v.calls = last.calls
                 /\ v.status = last.status /\ v.value = last.value
                 /\ v.blocks = blocks
            /\ \A v, w \in ofRail :
                 (v.calls = w.calls) => (v.value = w.value /\ v.status = w.status)

\* the copy of cane.js placed a block at the second attempt, after an error
\* that is not the benign one
C22_Witness ==
    /\ last.op = "cane_placeOnBlock"
    /\ Len(CallsOf("placeBlock")) = 2
    /\ last.value = "true"
    /\ blocks # last.pre.blocks

\* the statements of makeCaneMachine that switch the sneak control on and off
SneakOn == CHOOSE k \in 1..Len(makeCaneMachine) : makeCaneMachine[k] = Control("sneak", TRUE)
SneakOff == CHOOSE k \in 1..Len(makeCaneMachine) : makeCaneMachine[k] = Control("sneak", FALSE)

\* C23: the movement controls a run switches on are released.  The jump
\* control is off when jumpForDuration has returned, after the duration and
\* after an interrupt alike, and it ends with a release; the sneak control is on
\* only in makeCaneMachine between the statement that switches it on and the
\* one that switches it off, whatever the placements in between returned; and
\* with no run in progress both controls are off.
C23_ControlsReleased ==
    /\ last.op = "jumpForDuration" =>
         /\ last.status = "returned"
         /\ ~ctrl["jump"]
         /\ env # "any" =>
              last.calls[Len(last.calls)] = <<"setControlState", "jump", FALSE>>
    /\ ctrl["sneak"] => (machine = "cane" /\ pc \in (SneakOn + 1)..SneakOff)
    /\ ~Running => (~ctrl["jump"] /\ ~ctrl["sneak"])

\* a cane run came to its end although the hopper placements made while
\* sneaking had returned false: the hoppers are in stock and none is in the world
C23_Witness ==
    /\ machine = "cane"
    /\ pc = Len(makeCaneMachine) + 1
    /\ ~ctrl["sneak"]
    /\ env = "faultless"
    /\ inv["hopper"] > 0
    /\ \A c \in DOMAIN blocks : blocks[c] # "hopper"

\* the cell, as an offset in the frame, a placement statement fills: the cell
\* next to the reference block along the insertion direction, which is given in
\* world axes (forward is decreasing world z)
FilledCell(st) ==
    <<st.coords[1] + st.dir[1] \div 10,
      st.coords[2] + st.dir[2] \div 10,
      st.coords[3] - st.dir[3] \div 10>>

\* what the first k statements of makeRailMachine built when every placement
\* succeeded: the pairs of an offset and the item placed there and not dug since
RECURSIVE Built(_)
Built(k) ==
    IF k = 0 THEN {}
    ELSE LET st == makeRailMachine[k]
             before == Built(k - 1)
         IN  CASE st.op = "placeOnBlock" ->
                    {p \in before : p[1] # FilledCell(st)} \cup {<<FilledCell(st), st.item>>}
               [] st.op = "dig" ->
                    {p \in before : \A i \in 1..Len(st.list) : p[1] # st.list[i]}
               [] OTHER -> before

ToggleSteps == {k \in 1..Len(makeRailMachine) : makeRailMachine[k].op = "toggleBlock"}

\* the world cell of an offset in the bot's frame
CellAt(offset) == CellOf(resolve(origin, offset))

\* the block a world has at an offset in the bot's frame, "null" when the cell
\* is not loaded
BlockIn(world, offset) ==
    IF CellAt(offset) \in DOMAIN world THEN world[CellAt(offset)] ELSE "null"

LeverAt == <<1, 0, 2>>
RepeaterAt == <<0, -1, 2>>

\* C24: in makeRailMachine every toggleBlock statement targets a cell that an
\* earlier statement of the run filled with the block type it expects, and
\* that no statement in between dug out or refilled: the lever is toggled at
\* offset (1, 0, 2), by two statements, and the repeater at (0, -1, 2).  In a
\* run in the tracked world a lever or repeater placement that succeeded left
\* the item in that cell; a toggle that starts with the item in its cell finds
\* it and issues one activation of it, which returns; no other statement
\* activates a block; and a run that ended with the lever in place has
\* activated it exactly twice (never more than twice, whatever the world).
C24_TogglesFindTheirBlocks ==
    /\ \A k \in ToggleSteps :
         <<makeRailMachine[k].coords, makeRailMachine[k].item>> \in Built(k - 1)
    /\ {<<makeRailMachine[k].item, makeRailMachine[k].coords>> : k \in ToggleSteps}
         = {<<"lever", LeverAt>>, <<"repeater", RepeaterAt>>}
    /\ Cardinality({k \in ToggleSteps : makeRailMachine[k].item = "lever"}) = 2
    /\ machine = "rail" => leverUses <= 2
    /\ (machine = "rail" /\ env = "faultless" /\ pc # 1) =>
         /\ (/\ last.op = "placeOnBlock"
             /\ last.args.item \in {"lever", "repeater"}
             /\ CallsOf("placeBlock") # <<>>
             /\ CallsOf("placeBlock")[Len(CallsOf("placeBlock"))][4] = "ok") =>
                /\ last.value = "true"
                /\ BlockIn(blocks, IF last.args.item = "lever" THEN LeverAt ELSE RepeaterAt)
                     = last.args.item
         /\ (/\ last.op = "toggleBlock"
             /\ BlockIn(last.pre.blocks, last.args.coords) = last.args.item) =>
                /\ last.status = "returned"
                /\ CallsOf("activateBlock")
                     = <<<<"activateBlock", CellAt(last.args.coords), last.args.item, "ok">>>>
         /\ last.op # "toggleBlock" => CallsOf("activateBlock") = <<>>
         /\ (pc = Len(makeRailMachine) + 1 /\ BlockIn(blocks, LeverAt) = "lever") =>
                leverUses = 2

\* a rail run came to its end with the lever and the repeater in their cells
\* and the lever activated twice
C24_Witness ==
    /\ machine = "rail"
    /\ env = "faultless"
    /\ pc = Len(makeRailMachine) + 1
    /\ BlockIn(blocks, LeverAt) = "lever"
    /\ BlockIn(blocks, RepeaterAt) = "repeater"
    /\ leverUses = 2
    /\ last.op = "toggleBlock"
    /\ Len(CallsOf("activateBlock")) = 1

====
